---- MODULE Spec2Model ----
(***************************************************************************)
(* Model of iroha/src/domain.rs: the Domain entity, the flattening of the  *)
(* generic Register instruction into DomainInstruction, and the execution  *)
(* of RegisterAccount / RegisterAsset against the world state.             *)
(*                                                                         *)
(* Conventions.  A HashMap is a TLA+ function whose DOMAIN is its key set. *)
(* An Option is a sequence of length 0 (None) or 1 (Some).  The outcome of *)
(* a call is a record [kind, msg, world]: kind is "Ok", "Err" or "Panic"   *)
(* (the unwinding of `expect`), world is the world state the call leaves.  *)
(***************************************************************************)
EXTENDS Integers, FiniteSets, Sequences, TLC

\* ---------------------------------------------------------------- bounds
NumDomains == 2
NumAccounts == 2
NumDefinitions == 1
MaxQuantity == 2
\* Worlds with more stored entries (accounts plus holdings) are not explored.
MaxEntries == 3

DomainNames == 1..NumDomains
AccountIds == 1..NumAccounts
DefinitionIds == 1..NumDefinitions
Quantities == 1..MaxQuantity

\* ----------------------------------------------------------- HashMap ops
EmptyMap == <<>>

contains_key(m, k) == k \in DOMAIN m

insert(m, k, v) == [x \in (DOMAIN m) \cup {k} |-> IF x = k THEN v ELSE m[x]]

len(m) == Cardinality(DOMAIN m)

\* ------------------------------------------------------------ entities
\* Asset-Id: the definition and the owning account.
AssetIds == [definition_id : DefinitionIds, account_id : AccountIds]

account_id(id) == id.account_id

\* Assets that instructions carry.
Assets == [id : AssetIds, quantity : Quantities]

\* Accounts that instructions carry: as built by the account constructor,
\* with no holdings yet (holdings are added by RegisterAsset).
Accounts == [id : AccountIds, assets : {EmptyMap}]

\* Variant of Domain::new that leaves the name at its default.
DomainNew_DefaultName(name) ==
    [name |-> 0, accounts |-> EmptyMap, assets |-> EmptyMap]

DomainNew(name) == [name |-> name, accounts |-> EmptyMap, assets |-> EmptyMap]

\* WorldStateView::domain: exclusive lookup of a domain by name.
domain(world_state_view, id) ==
    IF id \in DOMAIN world_state_view THEN <<world_state_view[id]>> ELSE <<>>

\* ------------------------------------------------- Register, flattening
RegisterNew(object, destination_id) ==
    [destination_id |-> destination_id, object |-> object]

DomainInstructionRegisterAccount(name, account) ==
    [variant |-> "RegisterAccount", fields |-> <<name, account>>]

DomainInstructionRegisterAsset(name, asset) ==
    [variant |-> "RegisterAsset", fields |-> <<name, asset>>]

InstructionDomain(di) == [variant |-> "Domain", fields |-> <<di>>]

\* Variant of the flattening that takes the destination from the wrong field.
FromRegisterAccount_WrongDestination(instruction) ==
    InstructionDomain(DomainInstructionRegisterAccount(
        instruction.object.id, instruction.object))

\* impl From<Register<Domain, Account>> for Instruction
FromRegisterAccount(instruction) ==
    InstructionDomain(DomainInstructionRegisterAccount(
        instruction.destination_id, instruction.object))

\* impl From<Register<Domain, Asset>> for Instruction
FromRegisterAsset(instruction) ==
    InstructionDomain(DomainInstructionRegisterAsset(
        instruction.destination_id, instruction.object))

\* ------------------------------------------------------------ outcomes
Ok(w) == [kind |-> "Ok", msg |-> <<>>, world |-> w]
Err(m, w) == [kind |-> "Err", msg |-> m, world |-> w]
Panic(m, w) == [kind |-> "Panic", msg |-> m, world |-> w]

MsgNoDomain == <<"Failed to find domain.">>
MsgNoAccount == <<"Failed to find account.">>
MsgDuplicate(id) == <<"Domain already contains an account with an Id: ", id>>

\* ------------------------------------------------------------ executors
\* Variants of Register<Domain, Account>::execute with one slip each.
\* Upsert: a duplicate Id replaces the stored account before the error.
RegisterAccountExecute_Upsert(self, world_state_view) ==
    LET account == self.object
        found == domain(world_state_view, self.destination_id)
    IN IF found = <<>>
       THEN Err(MsgNoDomain, world_state_view)
       ELSE IF contains_key(found[1].accounts, account.id)
            THEN Err(MsgDuplicate(account.id),
                     [world_state_view EXCEPT ![self.destination_id].accounts =
                        insert(@, account.id, account)])
            ELSE Ok([world_state_view EXCEPT ![self.destination_id].accounts =
                        insert(@, account.id, account)])

\* The account map is rebuilt with the new entry only.
RegisterAccountExecute_Reset(self, world_state_view) ==
    LET account == self.object
        found == domain(world_state_view, self.destination_id)
    IN IF found = <<>>
       THEN Err(MsgNoDomain, world_state_view)
       ELSE IF contains_key(found[1].accounts, account.id)
            THEN Err(MsgDuplicate(account.id), world_state_view)
            ELSE Ok([world_state_view EXCEPT ![self.destination_id].accounts =
                        insert(EmptyMap, account.id, account)])

\* No duplicate check: the account is always inserted.
RegisterAccountExecute_NoCheck(self, world_state_view) ==
    LET account == self.object
        found == domain(world_state_view, self.destination_id)
    IN IF found = <<>>
       THEN Err(MsgNoDomain, world_state_view)
       ELSE Ok([world_state_view EXCEPT ![self.destination_id].accounts =
                   insert(@, account.id, account)])

\* A duplicate Id is skipped silently with Ok.
RegisterAccountExecute_OkOnDuplicate(self, world_state_view) ==
    LET account == self.object
        found == domain(world_state_view, self.destination_id)
    IN IF found = <<>>
       THEN Err(MsgNoDomain, world_state_view)
       ELSE IF contains_key(found[1].accounts, account.id)
            THEN Ok(world_state_view)
            ELSE Ok([world_state_view EXCEPT ![self.destination_id].accounts =
                        insert(@, account.id, account)])

\* The account is stored under the destination id instead of its own Id.
RegisterAccountExecute_WrongKey(self, world_state_view) ==
    LET account == self.object
        found == domain(world_state_view, self.destination_id)
    IN IF found = <<>>
       THEN Err(MsgNoDomain, world_state_view)
       ELSE IF contains_key(found[1].accounts, account.id)
            THEN Err(MsgDuplicate(account.id), world_state_view)
            ELSE Ok([world_state_view EXCEPT ![self.destination_id].accounts =
                        insert(@, self.destination_id, account)])

\* The domain lookup is unwrapped with `expect` instead of `ok_or(..)?`.
RegisterAccountExecute_ExpectDomain(self, world_state_view) ==
    LET account == self.object
        found == domain(world_state_view, self.destination_id)
    IN IF found = <<>>
       THEN Panic(MsgNoDomain, world_state_view)
       ELSE IF contains_key(found[1].accounts, account.id)
            THEN Err(MsgDuplicate(account.id), world_state_view)
            ELSE Ok([world_state_view EXCEPT ![self.destination_id].accounts =
                        insert(@, account.id, account)])

\* A missing domain is created on the fly (entry(..).or_insert_with(..)).
RegisterAccountExecute_CreateDomain(self, world_state_view) ==
    LET account == self.object
        found == domain(world_state_view, self.destination_id)
    IN IF found = <<>>
       THEN Ok(insert(world_state_view, self.destination_id,
                      [name |-> self.destination_id,
                       accounts |-> insert(EmptyMap, account.id, account),
                       assets |-> EmptyMap]))
       ELSE IF contains_key(found[1].accounts, account.id)
            THEN Err(MsgDuplicate(account.id), world_state_view)
            ELSE Ok([world_state_view EXCEPT ![self.destination_id].accounts =
                        insert(@, account.id, account)])

\* The duplicate check asks whether the domain has any account at all.
RegisterAccountExecute_AnyAccountBlocks(self, world_state_view) ==
    LET account == self.object
        found == domain(world_state_view, self.destination_id)
    IN IF found = <<>>
       THEN Err(MsgNoDomain, world_state_view)
       ELSE IF found[1].accounts # EmptyMap
            THEN Err(MsgDuplicate(account.id), world_state_view)
            ELSE Ok([world_state_view EXCEPT ![self.destination_id].accounts =
                        insert(@, account.id, account)])

\* Register<Domain, Account>::execute
RegisterAccountExecute(self, world_state_view) ==
    LET account == self.object
        found == domain(world_state_view, self.destination_id)
    IN IF found = <<>>
       THEN Err(MsgNoDomain, world_state_view)
       ELSE IF contains_key(found[1].accounts, account.id)
            THEN Err(MsgDuplicate(account.id), world_state_view)
            ELSE Ok([world_state_view EXCEPT ![self.destination_id].accounts =
                        insert(@, account.id, account)])

\* Variants of Register<Domain, Asset>::execute with one slip each.
\* The domain lookup is unwrapped with `expect` instead of `ok_or(..)?`.
RegisterAssetExecute_ExpectDomain(self, world_state_view) ==
    LET asset == self.object
        found == domain(world_state_view, self.destination_id)
        owner == account_id(asset.id)
    IN IF found = <<>>
       THEN Panic(MsgNoDomain, world_state_view)
       ELSE IF ~ contains_key(found[1].accounts, owner)
            THEN Panic(MsgNoAccount, world_state_view)
            ELSE Ok([world_state_view EXCEPT
                        ![self.destination_id].accounts[owner].assets =
                            insert(@, asset.id, asset)])

\* entry(..).or_insert(..): a present key keeps its old value.
RegisterAssetExecute_KeepOld(self, world_state_view) ==
    LET asset == self.object
        found == domain(world_state_view, self.destination_id)
        owner == account_id(asset.id)
    IN IF found = <<>>
       THEN Err(MsgNoDomain, world_state_view)
       ELSE IF ~ contains_key(found[1].accounts, owner)
            THEN Panic(MsgNoAccount, world_state_view)
            ELSE Ok([world_state_view EXCEPT
                        ![self.destination_id].accounts[owner].assets =
                            IF contains_key(@, asset.id)
                            THEN @ ELSE insert(@, asset.id, asset)])

\* A missing owner is reported with `ok_or(..)?` instead of `expect`.
RegisterAssetExecute_ErrOwner(self, world_state_view) ==
    LET asset == self.object
        found == domain(world_state_view, self.destination_id)
        owner == account_id(asset.id)
    IN IF found = <<>>
       THEN Err(MsgNoDomain, world_state_view)
       ELSE IF ~ contains_key(found[1].accounts, owner)
            THEN Err(MsgNoAccount, world_state_view)
            ELSE Ok([world_state_view EXCEPT
                        ![self.destination_id].accounts[owner].assets =
                            insert(@, asset.id, asset)])

\* The asset is also entered in the domain-level assets map.
RegisterAssetExecute_DomainRegistry(self, world_state_view) ==
    LET asset == self.object
        found == domain(world_state_view, self.destination_id)
        owner == account_id(asset.id)
    IN IF found = <<>>
       THEN Err(MsgNoDomain, world_state_view)
       ELSE IF ~ contains_key(found[1].accounts, owner)
            THEN Panic(MsgNoAccount, world_state_view)
            ELSE Ok([world_state_view EXCEPT
                        ![self.destination_id].accounts[owner].assets =
                            insert(@, asset.id, asset),
                        ![self.destination_id].assets =
                            insert(@, asset.id, asset)])

\* The holder is looked up by the wrong Id: the first account of the domain.
RegisterAssetExecute_FirstAccount(self, world_state_view) ==
    LET asset == self.object
        found == domain(world_state_view, self.destination_id)
        owner == account_id(asset.id)
    IN IF found = <<>>
       THEN Err(MsgNoDomain, world_state_view)
       ELSE IF ~ contains_key(found[1].accounts, owner)
            THEN Panic(MsgNoAccount, world_state_view)
            ELSE LET first == CHOOSE k \in DOMAIN found[1].accounts :
                                 \A j \in DOMAIN found[1].accounts : k <= j
                 IN Ok([world_state_view EXCEPT
                          ![self.destination_id].accounts[first].assets =
                              insert(@, asset.id, asset)])

\* Register<Domain, Asset>::execute
RegisterAssetExecute(self, world_state_view) ==
    LET asset == self.object
        found == domain(world_state_view, self.destination_id)
        owner == account_id(asset.id)
    IN IF found = <<>>
       THEN Err(MsgNoDomain, world_state_view)
       ELSE IF ~ contains_key(found[1].accounts, owner)
            THEN Panic(MsgNoAccount, world_state_view)
            ELSE Ok([world_state_view EXCEPT
                        ![self.destination_id].accounts[owner].assets =
                            insert(@, asset.id, asset)])

\* The Register value DomainInstruction::execute rebuilds from a variant.
Rebuilt(di) == RegisterNew(di.fields[2], di.fields[1])

\* Variant of the dispatcher whose RegisterAsset arm first runs the account
\* executor for the owner, so a missing owner is registered on the way.
DomainInstructionExecute_AutoRegister(di, world_state_view) ==
    IF di.variant = "RegisterAccount"
    THEN RegisterAccountExecute(Rebuilt(di), world_state_view)
    ELSE LET r == Rebuilt(di)
             owner == [id |-> account_id(r.object.id), assets |-> EmptyMap]
             pre == RegisterAccountExecute(
                        RegisterNew(owner, r.destination_id), world_state_view)
         IN RegisterAssetExecute(r, pre.world)

\* DomainInstruction::execute
DomainInstructionExecute(di, world_state_view) ==
    IF di.variant = "RegisterAccount"
    THEN RegisterAccountExecute(Rebuilt(di), world_state_view)
    ELSE RegisterAssetExecute(Rebuilt(di), world_state_view)

\* ---------------------------------------------------------------- state
VARIABLES
    world,      \* the world state: domain name -> Domain
    before,     \* the world state the last call started from
    reg,        \* Option: the Register value the caller built
    instr,      \* Option: the Instruction it was flattened to
    rebuilt,    \* Option: the Register value execute rebuilt
    outcome,    \* [kind, msg] of the call; kind "None" when no call is recorded
    registered, \* history: domain name -> Ids RegisterAccount returned Ok for
    pc,         \* the caller: "idle" between calls, "returned" holding a result
    probe,      \* Option: two instructions executed from `world` in both orders
    \* the codec tool (crates/iroha_codec), one run of main:
    args,       \* the parsed command line
    decodable,  \* type names whose decode_all accepts the input bytes
    parsable,   \* type names whose JSON deserializer accepts the input text
    files,      \* the input and output files named on the command line
    writer,     \* what has been written to the output, in order
    exit        \* Option: what main returned

domainVars == <<world, before, reg, instr, rebuilt, outcome, registered, pc>>
codecVars == <<args, decodable, parsable, files, writer, exit>>
vars == <<domainVars, probe, codecVars>>

\* The codec tool before it is run with anything.
CodecNotRun ==
    /\ args = <<>>
    /\ decodable = {}
    /\ parsable = {}
    /\ files = <<>>
    /\ writer = <<>>
    /\ exit = <<>>

Init ==
    /\ \E present \in SUBSET DomainNames :
          world = [n \in present |-> DomainNew(n)]
    /\ before = world
    /\ reg = <<>>
    /\ instr = <<>>
    /\ rebuilt = <<>>
    /\ outcome = [kind |-> "None", msg |-> <<>>]
    /\ registered = [n \in DomainNames |-> {}]
    /\ pc = "idle"
    /\ probe = <<>>
    /\ CodecNotRun

\* Exploration cap: the number of entries stored in a world state (accounts
\* and their holdings), compared with MaxEntries in Apply.
RECURSIVE SumOver(_, _)
SumOver(f, S) ==
    IF S = {} THEN 0
    ELSE LET x == CHOOSE y \in S : TRUE IN f[x] + SumOver(f, S \ {x})

DomainEntries(d) ==
    len(d.accounts)
      + SumOver([k \in DOMAIN d.accounts |-> len(d.accounts[k].assets)],
                DOMAIN d.accounts)

Entries(w) == SumOver([n \in DOMAIN w |-> DomainEntries(w[n])], DOMAIN w)

\* One call of execute on the flattened form of register r; the caller keeps
\* the call's inputs and result until it takes them (Return).
Apply(r, i) ==
    LET di == i.fields[1]
    IN \E res \in {DomainInstructionExecute(di, world)} :
       /\ Entries(res.world) <= MaxEntries
       /\ pc' = "returned"
       /\ reg' = <<r>>
       /\ instr' = <<i>>
       /\ rebuilt' = <<Rebuilt(di)>>
       /\ before' = world
       /\ world' = res.world
       /\ outcome' = [kind |-> res.kind, msg |-> res.msg]
       /\ registered' =
            IF di.variant = "RegisterAccount" /\ res.kind = "Ok"
            THEN [registered EXCEPT ![di.fields[1]] = @ \cup {di.fields[2].id}]
            ELSE registered
       /\ UNCHANGED <<probe, codecVars>>

ExecuteRegisterAccount ==
    /\ pc = "idle"
    /\ \E name \in DomainNames, account \in Accounts :
          LET r == RegisterNew(account, name)
          IN Apply(r, FromRegisterAccount(r))

ExecuteRegisterAsset ==
    /\ pc = "idle"
    /\ \E name \in DomainNames, asset \in Assets :
          LET r == RegisterNew(asset, name)
          IN Apply(r, FromRegisterAsset(r))

\* The caller takes the Result and is ready for the next instruction.  The
\* abort returns nothing: a call that ended in it is the last one.
Return ==
    /\ pc = "returned"
    /\ outcome.kind # "Panic"
    /\ pc' = "idle"
    /\ reg' = <<>>
    /\ instr' = <<>>
    /\ rebuilt' = <<>>
    /\ outcome' = [kind |-> "None", msg |-> <<>>]
    /\ before' = world
    /\ UNCHANGED <<world, registered, probe, codecVars>>

Next == ExecuteRegisterAccount \/ ExecuteRegisterAsset \/ Return

Spec == Init /\ [][Next]_vars

\* --------------------------------------------- two calls, in both orders
\* What the caller sees of a call.
Seen(res) == [kind |-> res.kind, msg |-> res.msg]

\* Two RegisterAccount instructions with different (domain name, account Id)
\* are executed from the current world state as i1 then i2 and as i2 then i1;
\* the results of both runs are kept side by side.  Each unordered pair is
\* taken once, since both orders are run.
ExecuteBothOrders ==
    /\ pc = "idle"
    /\ \E n1, n2 \in DomainNames, a1, a2 \in Accounts :
          /\ n1 < n2 \/ (n1 = n2 /\ a1.id < a2.id)
          /\ LET i1 == DomainInstructionRegisterAccount(n1, a1)
                 i2 == DomainInstructionRegisterAccount(n2, a2)
                 ab1 == DomainInstructionExecute(i1, world)
                 ab2 == DomainInstructionExecute(i2, ab1.world)
                 ba2 == DomainInstructionExecute(i2, world)
                 ba1 == DomainInstructionExecute(i1, ba2.world)
             IN probe' = <<[first |-> i1, second |-> i2,
                            ab |-> [first |-> Seen(ab1), second |-> Seen(ab2),
                                    world |-> ab2.world],
                            ba |-> [first |-> Seen(ba1), second |-> Seen(ba2),
                                    world |-> ba1.world]]>>
    /\ pc' = "probed"
    /\ UNCHANGED <<world, before, reg, instr, rebuilt, outcome, registered>>
    /\ UNCHANGED codecVars

NextOrder == Next \/ ExecuteBothOrders

SpecOrder == Init /\ [][NextOrder]_vars

\* ============================================ crates/iroha_codec (main.rs)
\* The tool is run once: Init of SpecCodec is the parsed command line and the
\* files it names, one action per arm of main's match runs the command.
\*
\* The SCALE and JSON codecs of the data model types are not part of main.rs.
\* What they do with the input is given by `decodable` (the types whose
\* decode_all accepts the input bytes) and `parsable` (the types whose
\* deserializer accepts the input text); what they produce is a value tagged
\* with the conversion and the type.

NumTypes == 3

\* Keys of the converter map, in BTreeMap (ascending) order.
TypeNames == 1..NumTypes

\* The key inserted by hand after the schema types, and the type whose
\* converter it is given.
CompactU128 == NumTypes
U32 == 1

\* The types that have a converter of their own.
ConverterTypes == TypeNames \ {CompactU128}

\* A type name that is not a key of the map.
NoSuchType == NumTypes + 1

\* generate_map: type name -> the type its converter decodes as.
generate_map == [t \in TypeNames |-> IF t = CompactU128 THEN U32 ELSE t]

\* The input, as far as the converters are concerned.
Inputs == [scale : SUBSET ConverterTypes, json : SUBSET ConverterTypes]

\* impl Converter for ConverterImpl<T>: Some(output) or None for the error.
scale_to_rust(converter, input) ==
    IF converter \in input.scale THEN <<[fmt |-> "{:#?}", of |-> converter]>>
    ELSE <<>>

scale_to_json(converter, input) ==
    IF converter \in input.scale THEN <<[fmt |-> "json", of |-> converter]>>
    ELSE <<>>

json_to_scale(converter, input) ==
    IF converter \in input.json THEN <<[fmt |-> "scale", of |-> converter]>>
    ELSE <<>>

\* What is written.
Line(x) == [kind |-> "line", text |-> x]
Bytes(x) == [kind |-> "bytes", data |-> x]
Entry(type_name, formatted) ==
    [kind |-> "entry", type_name |-> type_name, formatted |-> formatted]
Summary(count, text) == [kind |-> "summary", count |-> count, text |-> text]

\* Results of main and of the functions it calls.
ExitOk == [kind |-> "Ok", msg |-> <<>>]
ExitErr(m) == [kind |-> "Err", msg |-> m]
MsgUnknownType(type_name) == <<"Unknown type: ", type_name>>
MsgIo == <<"io error">>
MsgDecode == <<"decode error">>

Ran(e, w, f) == [exit |-> e, writer |-> w, files |-> f]

\* ScaleToRustDecoder::dump_decoded
dump_decoded(converter, input, w) ==
    LET result == scale_to_rust(converter, input)
    IN IF result = <<>>
       THEN [exit |-> ExitErr(MsgDecode), w |-> w]
       ELSE [exit |-> ExitOk, w |-> Append(w, Line(result[1]))]

\* ScaleToRustDecoder::decode_by_type
decode_by_type(type_name, bytes, w) ==
    IF type_name \notin DOMAIN generate_map
    THEN [exit |-> ExitErr(MsgUnknownType(type_name)), w |-> w]
    ELSE dump_decoded(generate_map[type_name], bytes, w)

\* The summary line of decode_by_guess.
GuessSummary(count) ==
    IF count = 0 THEN Summary(0, "No compatible types found")
    ELSE IF count = 1 THEN Summary(1, "compatible type found")
    ELSE Summary(count, "compatible types found")

\* The filter_map of decode_by_guess from key t on: the writer and the count.
RECURSIVE GuessFrom(_, _, _, _)
GuessFrom(t, bytes, w, count) ==
    IF t > NumTypes THEN [w |-> w, count |-> count]
    ELSE LET dumped == dump_decoded(generate_map[t], bytes, <<>>)
         IN IF dumped.exit.kind = "Ok"
            THEN GuessFrom(t + 1, bytes, Append(w, Entry(t, dumped.w)), count + 1)
            ELSE GuessFrom(t + 1, bytes, w, count)

\* Variant that counts every type tried, not the ones written.
RECURSIVE GuessFrom_CountsTried(_, _, _, _)
GuessFrom_CountsTried(t, bytes, w, count) ==
    IF t > NumTypes THEN [w |-> w, count |-> count]
    ELSE LET dumped == dump_decoded(generate_map[t], bytes, <<>>)
         IN IF dumped.exit.kind = "Ok"
            THEN GuessFrom_CountsTried(t + 1, bytes,
                                       Append(w, Entry(t, dumped.w)), count + 1)
            ELSE GuessFrom_CountsTried(t + 1, bytes, w, count + 1)

decode_by_guess_CountsTried(bytes, w) ==
    LET tried == GuessFrom_CountsTried(1, bytes, w, 0)
    IN [exit |-> ExitOk, w |-> Append(tried.w, GuessSummary(tried.count))]

\* ScaleToRustDecoder::decode_by_guess.  The writer takes every write (as the
\* Vec<u8> of the tests does) and the Debug output is valid UTF-8, so an entry
\* is skipped only when its converter fails.
decode_by_guess(bytes, w) ==
    LET tried == GuessFrom(1, bytes, w, 0)
    IN [exit |-> ExitOk, w |-> Append(tried.w, GuessSummary(tried.count))]

\* ScaleToRustDecoder::decode
decode(a, input, f, w) ==
    IF f.input = "missing"
    THEN Ran(ExitErr(MsgIo), w, f)
    ELSE LET done == IF a.type_name # <<>>
                     THEN decode_by_type(a.type_name[1], input, w)
                     ELSE decode_by_guess(input, w)
         IN Ran(done.exit, done.w, f)

\* File::create: a new empty file, or the existing one emptied.
FileCreate(state) == IF state = "absent" THEN "created" ELSE "truncated"

\* ScaleJsonDecoder::new: Err, or the decoder (its converter) with the files
\* as the constructor leaves them.
ScaleJsonDecoderNew(a, f) ==
    IF a.input # <<>> /\ f.input = "missing"
    THEN [exit |-> ExitErr(MsgIo), files |-> f, converter |-> <<>>]
    ELSE LET opened == IF a.output # <<>>
                       THEN [f EXCEPT !.output = FileCreate(@)]
                       ELSE f
         IN IF a.type_name[1] \notin DOMAIN generate_map
            THEN [exit |-> ExitErr(MsgUnknownType(a.type_name[1])),
                  files |-> opened, converter |-> <<>>]
            ELSE [exit |-> ExitOk, files |-> opened,
                  converter |-> <<generate_map[a.type_name[1]]>>]

\* ScaleJsonDecoder::scale_to_json
ScaleJsonDecoder_scale_to_json(converter, input, f, w) ==
    LET output == scale_to_json(converter, input)
    IN IF output = <<>> THEN Ran(ExitErr(MsgDecode), w, f)
       ELSE Ran(ExitOk, Append(w, Line(output[1])), f)

\* ScaleJsonDecoder::json_to_scale
ScaleJsonDecoder_json_to_scale(converter, input, f, w) ==
    LET output == json_to_scale(converter, input)
    IN IF output = <<>> THEN Ran(ExitErr(MsgDecode), w, f)
       ELSE Ran(ExitOk, Append(w, Bytes(output[1])), f)

\* list_types
RECURSIVE KeysFrom(_, _)
KeysFrom(t, w) ==
    IF t > NumTypes THEN w ELSE KeysFrom(t + 1, Append(w, Line(t)))

list_types(w) ==
    LET keys == KeysFrom(1, w)
        blank == IF NumTypes # 0 THEN Append(keys, Line("")) ELSE keys
        n == Cardinality(DOMAIN generate_map)
    IN Append(blank,
              IF n = 0 THEN Summary(0, "No type is supported")
              ELSE IF n = 1 THEN Summary(1, "type is supported")
              ELSE Summary(n, "types are supported"))

\* ---- the command lines
Some(S) == {<<x>> : x \in S}
Option(S) == {<<>>} \cup Some(S)

ArgsListTypes ==
    [command : {"ListTypes"}, type_name : {<<>>}, input : {<<>>}, output : {<<>>}]

\* ScaleToRustArgs: the binary (here `input`) and an optional type name.
ArgsScaleToRust ==
    [command : {"ScaleToRust"}, type_name : Option(TypeNames \cup {NoSuchType}),
     input : Some({"binary"}), output : {<<>>}]

\* ScaleJsonArgs: optional input and output paths, and a type name.
ArgsScaleJson ==
    [command : {"ScaleToJson", "JsonToScale"},
     type_name : Some(TypeNames \cup {NoSuchType}),
     input : Option({"input"}), output : Option({"output"})]

Files ==
    [input : {"missing", "present"}, output : {"absent", "old"}]

\* Files that matter to the command line: a path that is not given names no
\* file, so its state is left at the first value.
FilesFor(a) ==
    {f \in Files :
        /\ a.input = <<>> => f.input = "present"
        /\ a.output = <<>> => f.output = "absent"}

\* The world state of domain.rs plays no part in a run of the tool.
DomainNotUsed ==
    /\ world = EmptyMap
    /\ before = EmptyMap
    /\ reg = <<>>
    /\ instr = <<>>
    /\ rebuilt = <<>>
    /\ outcome = [kind |-> "None", msg |-> <<>>]
    /\ registered = [n \in DomainNames |-> {}]
    /\ pc = "idle"
    /\ probe = <<>>

InitCodec ==
    /\ DomainNotUsed
    /\ \E a \in ArgsListTypes \cup ArgsScaleToRust \cup ArgsScaleJson :
          /\ args = a
          /\ files \in FilesFor(a)
          /\ \E i \in Inputs :
                /\ a.command \in {"ListTypes", "JsonToScale"} => i.scale = {}
                /\ a.command # "JsonToScale" => i.json = {}
                /\ decodable = i.scale
                /\ parsable = i.json
    /\ writer = <<>>
    /\ exit = <<>>

TheInput == [scale |-> decodable, json |-> parsable]

Finish(ran) ==
    /\ exit' = <<ran.exit>>
    /\ writer' = ran.writer
    /\ files' = ran.files
    /\ UNCHANGED <<args, decodable, parsable, domainVars, probe>>

\* main, Command::ListTypes
RunListTypes ==
    /\ exit = <<>>
    /\ args.command = "ListTypes"
    /\ Finish(Ran(ExitOk, list_types(writer), files))

\* main, Command::ScaleToRust
RunScaleToRust ==
    /\ exit = <<>>
    /\ args.command = "ScaleToRust"
    /\ Finish(decode(args, TheInput, files, writer))

\* main, Command::ScaleToJson
RunScaleToJson ==
    /\ exit = <<>>
    /\ args.command = "ScaleToJson"
    /\ LET decoder == ScaleJsonDecoderNew(args, files)
       IN IF decoder.exit.kind = "Err"
          THEN Finish(Ran(decoder.exit, writer, decoder.files))
          ELSE Finish(ScaleJsonDecoder_scale_to_json(
                          decoder.converter[1], TheInput, decoder.files, writer))

\* main, Command::JsonToScale
RunJsonToScale ==
    /\ exit = <<>>
    /\ args.command = "JsonToScale"
    /\ LET decoder == ScaleJsonDecoderNew(args, files)
       IN IF decoder.exit.kind = "Err"
          THEN Finish(Ran(decoder.exit, writer, decoder.files))
          ELSE Finish(ScaleJsonDecoder_json_to_scale(
                          decoder.converter[1], TheInput, decoder.files, writer))

NextCodec ==
    RunListTypes \/ RunScaleToRust \/ RunScaleToJson \/ RunJsonToScale

SpecCodec == InitCodec /\ [][NextCodec]_vars

\* ------------------------------------------------ the last call, by parts
Called == outcome.kind # "None"
CallDi == instr[1].fields[1]
CallName == CallDi.fields[1]
CallObject == CallDi.fields[2]
IsRegisterAccount == Called /\ CallDi.variant = "RegisterAccount"
IsRegisterAsset == Called /\ CallDi.variant = "RegisterAsset"
DomainExisted == CallName \in DOMAIN before
AccountsBefore == before[CallName].accounts
AccountsAfter == world[CallName].accounts

\* C1: RegisterAccount on an existing domain whose account map already holds
\* account.id returns the AlreadyExists error naming that Id and leaves the
\* whole world state as it was: the stored account (holdings included) and the
\* size of the account map are unchanged.
C1_Case ==
    /\ IsRegisterAccount
    /\ DomainExisted
    /\ contains_key(AccountsBefore, CallObject.id)

C1_DuplicateAccountRejected ==
    C1_Case =>
        /\ outcome.kind = "Err"
        /\ outcome.msg = MsgDuplicate(CallObject.id)
        /\ world = before
        /\ AccountsAfter[CallObject.id] = AccountsBefore[CallObject.id]
        /\ len(AccountsAfter) = len(AccountsBefore)

\* A duplicate registration met a stored account that differs from the
\* offered one (it has acquired holdings).
C1_Witness ==
    /\ C1_Case
    /\ outcome.kind = "Err"
    /\ AccountsBefore[CallObject.id] # CallObject

\* C2: an instruction of either variant naming a domain that is not in the
\* world state returns the NotFound error and leaves the world state equal;
\* for RegisterAsset also when the owning account is in no domain.
C2_Case == Called /\ ~ DomainExisted

C2_MissingDomainNotFound ==
    C2_Case =>
        /\ outcome.kind = "Err"
        /\ outcome.msg = MsgNoDomain
        /\ world = before

\* RegisterAsset on a missing domain, its owner stored in no domain, while
\* some other domain exists.
C2_Witness ==
    /\ IsRegisterAsset
    /\ ~ DomainExisted
    /\ DOMAIN before # {}
    /\ \A n \in DOMAIN before :
          ~ contains_key(before[n].accounts, account_id(CallObject.id))
    /\ outcome.kind = "Err"

\* C3: RegisterAccount on an existing domain that lacks account.id returns
\* Ok and adds exactly the entry account.id -> account to that domain's
\* account map; the other entries, the domain's name and assets map, the
\* other domains and the set of domains are unchanged.
C3_Case ==
    /\ IsRegisterAccount
    /\ DomainExisted
    /\ ~ contains_key(AccountsBefore, CallObject.id)

C3_RegisterAccountAddsOneEntry ==
    C3_Case =>
        /\ outcome.kind = "Ok"
        /\ DOMAIN world = DOMAIN before
        /\ \A n \in DOMAIN before \ {CallName} : world[n] = before[n]
        /\ world[CallName].name = before[CallName].name
        /\ world[CallName].assets = before[CallName].assets
        /\ DOMAIN AccountsAfter = DOMAIN AccountsBefore \cup {CallObject.id}
        /\ len(AccountsAfter) = len(AccountsBefore) + 1
        /\ AccountsAfter[CallObject.id] = CallObject
        /\ \A k \in DOMAIN AccountsBefore : AccountsAfter[k] = AccountsBefore[k]

\* An account joined a domain that already held another account, while
\* another domain held accounts too.
C3_Witness ==
    /\ C3_Case
    /\ outcome.kind = "Ok"
    /\ AccountsBefore # EmptyMap
    /\ \E n \in DOMAIN before \ {CallName} : before[n].accounts # EmptyMap

\* C4: in any sequence of executions, a RegisterAccount on an existing domain
\* D returns Ok exactly when no earlier execution returned Ok for the same Id
\* on D, and after every step D's account keys are exactly the Ids that
\* executions returned Ok for.
C4_Step ==
    /\ \A n \in DOMAIN world' : DOMAIN world'[n].accounts = registered'[n]
    /\ pc' = "returned" =>
          LET di == instr'[1].fields[1]
          IN (di.variant = "RegisterAccount" /\ di.fields[1] \in DOMAIN world)
               => (outcome'.kind = "Ok"
                     <=> di.fields[2].id \notin registered[di.fields[1]])

C4_OkExactlyOncePerId == [][C4_Step]_vars

\* Two distinct Ids were registered in one domain and a repeated
\* registration was then refused.
C4_Witness ==
    /\ IsRegisterAccount
    /\ DomainExisted
    /\ Cardinality(registered[CallName]) >= 2
    /\ outcome.kind = "Err"
    /\ DOMAIN AccountsAfter = registered[CallName]

\* C5: RegisterAsset on an existing domain whose account map holds the owner
\* returns Ok and sets the owner's asset map at asset.id to asset whatever
\* was there: a present key keeps the map's size and gets the new value, an
\* absent key grows the map by one.
C5_Case ==
    /\ IsRegisterAsset
    /\ DomainExisted
    /\ contains_key(AccountsBefore, account_id(CallObject.id))

AssetsBefore == AccountsBefore[account_id(CallObject.id)].assets
AssetsAfter == AccountsAfter[account_id(CallObject.id)].assets

C5_RegisterAssetOverwrites ==
    C5_Case =>
        /\ outcome.kind = "Ok"
        /\ contains_key(AssetsAfter, CallObject.id)
        /\ AssetsAfter[CallObject.id] = CallObject
        /\ DOMAIN AssetsAfter = DOMAIN AssetsBefore \cup {CallObject.id}
        /\ \A k \in DOMAIN AssetsBefore \ {CallObject.id} :
              AssetsAfter[k] = AssetsBefore[k]
        /\ IF contains_key(AssetsBefore, CallObject.id)
           THEN len(AssetsAfter) = len(AssetsBefore)
           ELSE len(AssetsAfter) = len(AssetsBefore) + 1

\* An asset was registered again under the same Id with another value.
C5_Witness ==
    /\ C5_Case
    /\ outcome.kind = "Ok"
    /\ contains_key(AssetsBefore, CallObject.id)
    /\ AssetsBefore[CallObject.id] # CallObject
    /\ AssetsAfter[CallObject.id] = CallObject

\* C6: RegisterAsset on an existing domain whose account map lacks the owner
\* ends in the fatal abort, neither Ok nor Err, with the world state as it was.
C6_Case ==
    /\ IsRegisterAsset
    /\ DomainExisted
    /\ ~ contains_key(AccountsBefore, account_id(CallObject.id))

C7_OkAlwaysMutates ==
    (Called /\ outcome.kind = "Ok") => world # before

\* C7 as amended: Err leaves the world state equal; Ok of RegisterAccount
\* leaves it different; Ok of RegisterAsset leaves it different except when
\* the owner's asset map already held exactly that asset under asset.id, and
\* then the world state is left equal.
C7_AlreadyHeld ==
    /\ IsRegisterAsset
    /\ contains_key(AssetsBefore, CallObject.id)
    /\ AssetsBefore[CallObject.id] = CallObject

C7_OkMutatesUnlessAlreadyHeld ==
    /\ (Called /\ outcome.kind = "Err") => world = before
    /\ (Called /\ outcome.kind = "Ok") => (world = before <=> C7_AlreadyHeld)

\* An asset was registered again with the value it already had.
C7_Witness ==
    /\ IsRegisterAsset
    /\ outcome.kind = "Ok"
    /\ world = before
    /\ AssetsAfter[CallObject.id] = CallObject

\* C8: flattening a Register value gives the variant of its own pair carrying
\* (destination_id, object) in that order, and the Register value that
\* execute rebuilds from the variant equals the original in both fields.
IsAccountObject(o) == "assets" \in DOMAIN o

C8_FlatteningPreserves ==
    Called =>
        /\ instr[1].variant = "Domain"
        /\ CallDi.variant =
              (IF IsAccountObject(reg[1].object)
               THEN "RegisterAccount" ELSE "RegisterAsset")
        /\ CallDi.fields = <<reg[1].destination_id, reg[1].object>>
        /\ rebuilt[1].destination_id = reg[1].destination_id
        /\ rebuilt[1].object = reg[1].object

\* Both pairs have been flattened and rebuilt, here the asset pair after an
\* account was registered.
C8_Witness ==
    /\ IsRegisterAsset
    /\ ~ IsAccountObject(reg[1].object)
    /\ rebuilt = reg
    /\ \E n \in DOMAIN world : world[n].accounts # EmptyMap

C10_RegisterAccountNeverAborts ==
    IsRegisterAccount =>
        /\ outcome.kind \in {"Ok", "Err"}
        /\ ~ DomainExisted => outcome.kind = "Err"
        /\ (DomainExisted /\ contains_key(AccountsBefore, CallObject.id))
              => outcome.kind = "Err"

\* RegisterAccount named a missing domain and the caller got Err back, in a
\* world whose other domain holds accounts.
C10_Witness ==
    /\ IsRegisterAccount
    /\ ~ DomainExisted
    /\ outcome.kind = "Err"
    /\ \E n \in DOMAIN world : world[n].accounts # EmptyMap

\* C11: Domain::new(name) gives a domain with that name and with empty
\* accounts and assets maps: a domain of the world state in which no account
\* has been registered yet is exactly as Domain::new built it.
C11_NewDomainIsEmpty ==
    \A n \in DOMAIN world :
        registered[n] = {} =>
            /\ world[n].name = n
            /\ len(world[n].accounts) = 0
            /\ len(world[n].assets) = 0

\* Domains were just created and nothing has been executed on them.
C11_Witness ==
    /\ ~ Called
    /\ DOMAIN world = DomainNames
    /\ \A n \in DomainNames : registered[n] = {}
    /\ \A n \in DOMAIN world : world[n] = DomainNew(n)

\* C13: a RegisterAccount call changes no stored account's asset map; a
\* RegisterAsset call changes neither the set of domains nor the key set of
\* any account map, and changes no account but the owner in the named domain.
C13_VariantsStayInTheirLane ==
    /\ IsRegisterAccount =>
          \A n \in DOMAIN before :
              \A k \in DOMAIN before[n].accounts :
                  /\ n \in DOMAIN world
                  /\ k \in DOMAIN world[n].accounts
                  /\ world[n].accounts[k].assets = before[n].accounts[k].assets
    /\ IsRegisterAsset =>
          /\ DOMAIN world = DOMAIN before
          /\ \A n \in DOMAIN before :
                /\ DOMAIN world[n].accounts = DOMAIN before[n].accounts
                /\ \A k \in DOMAIN before[n].accounts :
                      (n # CallName \/ k # account_id(CallObject.id))
                          => world[n].accounts[k] = before[n].accounts[k]

\* An asset was registered to its owner while the domain held another account.
C13_Witness ==
    /\ IsRegisterAsset
    /\ outcome.kind = "Ok"
    /\ world # before
    /\ len(AccountsBefore) >= 2

\* C14: in every reachable world state the domain-level assets map of every
\* domain is empty.
C14_DomainAssetsStayEmpty ==
    \A n \in DOMAIN world : world[n].assets = EmptyMap

\* An asset has been registered and is held by an account of the domain.
C14_Witness ==
    \E n \in DOMAIN world :
        /\ world[n].assets = EmptyMap
        /\ \E k \in DOMAIN world[n].accounts :
              world[n].accounts[k].assets # EmptyMap

C16_Step ==
    /\ DOMAIN world' = DOMAIN world
    /\ \A n \in DOMAIN world :
          /\ DOMAIN world[n].accounts \subseteq DOMAIN world'[n].accounts
          /\ \A k \in DOMAIN world[n].accounts :
                DOMAIN world[n].accounts[k].assets
                    \subseteq DOMAIN world'[n].accounts[k].assets

C16_Monotone == [][C16_Step]_vars

\* After several executions, one of them rejected, two accounts and a holding
\* registered earlier are all still there.
C16_Witness ==
    /\ Called
    /\ outcome.kind = "Err"
    /\ \E n \in DOMAIN world :
          /\ len(world[n].accounts) >= 2
          /\ \E k \in DOMAIN world[n].accounts :
                world[n].accounts[k].assets # EmptyMap

\* C17: two RegisterAccount instructions with different (domain name, account
\* Id), executed from the same world state in either order, leave the same
\* world state, and each instruction gets the same result in both orders.
C17_OrderIndependent ==
    probe # <<>> =>
        /\ probe[1].ab.world = probe[1].ba.world
        /\ probe[1].ab.first = probe[1].ba.first
        /\ probe[1].ab.second = probe[1].ba.second

\* Two accounts with distinct Ids went into one domain that already held
\* something, both with Ok, in both orders.
C17_Witness ==
    /\ probe # <<>>
    /\ probe[1].first.fields[1] = probe[1].second.fields[1]
    /\ probe[1].ab.first.kind = "Ok"
    /\ probe[1].ab.second.kind = "Ok"
    /\ probe[1].ba.first.kind = "Ok"
    /\ probe[1].ab.world # world
    /\ \E n \in DOMAIN world : world[n].accounts # EmptyMap

\* ------------------------------------------------ the run of the tool
Exited == exit # <<>>

\* The type names whose converter decodes the input bytes.
Compatible == {t \in TypeNames : scale_to_rust(generate_map[t], TheInput) # <<>>}

\* C18: with no type name given, decode tries every type of the map and
\* writes exactly one labelled entry for each type whose converter decodes
\* the bytes, none for any other type, and then the summary line, whose count
\* is the number of entries written; with no entry it is the line
\* "No compatible types found".
C18_Case ==
    /\ Exited
    /\ args.command = "ScaleToRust"
    /\ args.type_name = <<>>
    /\ files.input = "present"

C19_Case ==
    /\ Exited
    /\ args.type_name = <<NoSuchType>>
    /\ files.input = "present"

C19_UnknownTypeLeavesOutputAlone ==
    C19_Case =>
        /\ exit[1].kind = "Err"
        /\ exit[1].msg = MsgUnknownType(NoSuchType)
        /\ writer = <<>>
        /\ files.output \in {"absent", "old"}

====
